---- MODULE Spec2Model ----
(***************************************************************************)
(* Dining philosophers of src/3.go: a ring of Fork mutexes, one goroutine  *)
(* per Philosopher running dine(), and main() as the coordinator that      *)
(* builds the ring, starts the goroutines, closes the done channel and     *)
(* waits on the WaitGroup.                                                 *)
(*                                                                         *)
(* Monitor test of src/unnamed/part_000: numGoroutines goroutines running  *)
(* testMonitor(), each waiting on one sync.Cond, and main() broadcasting   *)
(* once after a sleep and waiting on the WaitGroup.                        *)
(***************************************************************************)
EXTENDS Integers, Sequences, FiniteSets, TLC

\* src/3.go:12  const numPhilosophers = 5
numPhilosophers == 5

\* The largest ring the model builds.
MaxRing == 5

\* The largest number of testMonitor goroutines the model starts.
MaxGoroutines == 3

\* Ring sizes the ring is built for: every valid size N >= 2.
RingSizes == 2..MaxRing
\* Ring sizes including the invalid ones (N < 2).
AnySizes == 0..MaxRing
\* Ring sizes of the runs checked for termination: the minimal ring, the
\* smallest odd ring and the program's own.
FairSizes == {2, 3, numPhilosophers}

\* 2t2.go, lines 78 and 158: the number of parts the list is cut into, which is
\* the number of goroutines of each phase of processWithConcurrency.
countSize == 3

\* The worker lists processWithoutConcurrency is checked for have at most this
\* length (main builds 100000 workers).
MaxWorkers == 4

\* The worker lists the goroutines of processWithConcurrency are interleaved
\* for have at most this length.
MaxConcurrentWorkers == 3

\* generateWorker: the two positions ("D" and "S" stand for the Cyrillic letters
\* of the source), and, of the ages 20..60 and the salaries
\* 30000..99999, two each: ages 4 apart, so that a worker is within 2 years of
\* some averages and not of others.
Positions == {"D", "S"}
AgeValues == {20, 24}
SalaryValues == {30000, 70000}

VARIABLES
    n,            \* the agent count the ring is built for (numPhilosophers)
    forks,        \* forks[f]: TRUE iff the sync.Mutex of Fork f is locked
    philosophers, \* philosophers[i]: [id, leftFork, rightFork]
    pc,           \* pc[i]: position of philosopher i's goroutine in dine()
    holds,        \* holds[i]: forks philosopher i has locked and not yet unlocked
    order,        \* order[i]: forks philosopher i locked in the current eat(), in call order
    finished,     \* finished[i]: number of "finished" lines philosopher i printed
    wg,           \* sync.WaitGroup counter
    done,         \* TRUE iff the done channel is closed
    closes,       \* number of close(done) calls executed
    mainPc,       \* position of main()
    next,         \* index of the spawn loop of main()
    lastEvent,    \* lastEvent[i]: the latest line philosopher i printed, "none" before the first
    printed,      \* printed[i]: lines philosopher i printed in its current loop iteration
    eatEntry,     \* eatEntry[i]: the state of done ("armed", "signaled") when philosopher i
                  \* printed the "eating" line it is now eating under, "none" when not eating
    numGoroutines, \* part_000: the number of testMonitor goroutines main starts
    mu,           \* part_000: TRUE iff the mutex mu of the Monitor test is locked
    notify,       \* part_000: the goroutines on cond's wait list, not yet woken
    broadcasts,   \* part_000: number of cond.Broadcast() calls executed
    monitorPc,    \* part_000: monitorPc[w]: position of goroutine w in testMonitor()
    monitorWg,    \* part_000: counter of main's WaitGroup
    monitorMain,  \* part_000: position of main() in the Monitor test
    monitorNext,  \* part_000: index of the loop of main() starting the goroutines
    workers,      \* 2t2.go: the worker list main() passes to both process functions
    position,     \* 2t2.go: the position main() passes to both process functions
    seqAvgAge,    \* 2t2.go: avgAge as processWithoutConcurrency printed it
    seqMaxSalary, \* 2t2.go: maxSalary as processWithoutConcurrency printed it
    avgAgeResults,    \* 2t2.go: avgAgeResults[i] of processWithConcurrency
    maxSalaryResults, \* 2t2.go: maxSalaryResults[i] of processWithConcurrency
    avgAge,       \* 2t2.go: avgAge of processWithConcurrency
    maxSalary,    \* 2t2.go: maxSalary of processWithConcurrency
    aggWg,        \* 2t2.go: counter of the WaitGroup of processWithConcurrency
    aggMain,      \* 2t2.go: position of main() and of the process function it is in
    aggNext,      \* 2t2.go: index of the go loop processWithConcurrency is in
    avgPc,        \* 2t2.go: avgPc[i]: position of the average-age goroutine of chunk i
    maxPc         \* 2t2.go: maxPc[i]: position of the max-salary goroutine of chunk i

\* The state of the philosophers' program (src/3.go).
philVars ==
    <<n, forks, philosophers, pc, holds, order, finished, wg, done, closes, mainPc, next,
      lastEvent, printed, eatEntry>>

\* The state of the Monitor test (src/unnamed/part_000).
monVars ==
    <<numGoroutines, mu, notify, broadcasts, monitorPc, monitorWg, monitorMain, monitorNext>>

\* The state of the worker aggregation (src/2t2.go).
aggVars ==
    <<workers, position, seqAvgAge, seqMaxSalary, avgAgeResults, maxSalaryResults, avgAge,
      maxSalary, aggWg, aggMain, aggNext, avgPc, maxPc>>

vars == <<philVars, monVars, aggVars>>

Agents == 0..(n - 1)

\* ------------------------------------------------------------------ types

\* A ring build that clamps the last right fork instead of wrapping it.
NewPhilosopher_NoWrap(i, N) ==
    [id |-> i, leftFork |-> i, rightFork |-> IF i + 1 < N THEN i + 1 ELSE i]

\* A ring build that binds the two forks the other way round.
NewPhilosopher_Swapped(i, N) ==
    [id |-> i, leftFork |-> (i + 1) % N, rightFork |-> i]

\* Philosopher{id: i, leftFork: forks[i], rightFork: forks[(i+1)%numPhilosophers]}
NewPhilosopher(i, N) == [id |-> i, leftFork |-> i, rightFork |-> (i + 1) % N]

\* Every philosopher locks leftFork first.
LockOrder_Uniform(p) == <<p.leftFork, p.rightFork>>

\* The parity test inverted.
LockOrder_Inverted(p) ==
    IF p.id % 2 = 0 THEN <<p.rightFork, p.leftFork>> ELSE <<p.leftFork, p.rightFork>>

\* The order of the two Lock() calls of eat(): even id -> leftFork then
\* rightFork, odd id -> rightFork then leftFork.
LockOrder(p) ==
    IF p.id % 2 = 0 THEN <<p.leftFork, p.rightFork>> ELSE <<p.rightFork, p.leftFork>>

\* The fork eat() locks first.
FirstFork(p) == LockOrder(p)[1]

\* The fork eat() locks second.
SecondFork(p) == LockOrder(p)[2]

\* A Lock() that never blocks.
CanLock_NoExclusion(f) == TRUE

\* Fork.Lock() returns only when the embedded mutex is unlocked.
CanLock(f) == ~forks[f]

\* ------------------------------------------------------------------ main()

\* The Monitor test is another program: it is not running.
MonitorIdle ==
    /\ numGoroutines = 0
    /\ mu = FALSE
    /\ notify = {}
    /\ broadcasts = 0
    /\ monitorPc = [w \in {} |-> "unstarted"]
    /\ monitorWg = 0
    /\ monitorMain = "idle"
    /\ monitorNext = 0

\* The worker aggregation is another program: it is not running.
AggIdle ==
    /\ workers = <<>>
    /\ position = ""
    /\ seqAvgAge = <<0, 1>>
    /\ seqMaxSalary = 0
    /\ avgAgeResults = [i \in {} |-> <<0, 1>>]
    /\ maxSalaryResults = [i \in {} |-> 0]
    /\ avgAge = <<0, 1>>
    /\ maxSalary = 0
    /\ aggWg = 0
    /\ aggMain = "idle"
    /\ aggNext = 0
    /\ avgPc = [i \in {} |-> "unstarted"]
    /\ maxPc = [i \in {} |-> "unstarted"]

InitFor(sizes) ==
    /\ MonitorIdle
    /\ AggIdle
    /\ n \in sizes
    /\ forks = [f \in {} |-> FALSE]
    /\ philosophers = [i \in {} |-> 0]
    /\ pc = [i \in 0..(n - 1) |-> "unstarted"]
    /\ holds = [i \in 0..(n - 1) |-> {}]
    /\ order = [i \in 0..(n - 1) |-> <<>>]
    /\ finished = [i \in 0..(n - 1) |-> 0]
    /\ wg = 0
    /\ done = FALSE
    /\ closes = 0
    /\ mainPc = "build"
    /\ next = 0
    /\ lastEvent = [i \in 0..(n - 1) |-> "none"]
    /\ printed = [i \in 0..(n - 1) |-> 0]
    /\ eatEntry = [i \in 0..(n - 1) |-> "none"]

Init == InitFor(RingSizes)

\* main, lines 81-94: the forks and the philosophers are created.
Build ==
    /\ mainPc = "build"
    /\ forks' = [f \in 0..(n - 1) |-> FALSE]
    /\ philosophers' = [i \in 0..(n - 1) |-> NewPhilosopher(i, n)]
    /\ mainPc' = "spawn"
    /\ UNCHANGED <<n, pc, holds, order, finished, wg, done, closes, next>>
    /\ UNCHANGED <<monVars, aggVars>>
    /\ UNCHANGED <<lastEvent, printed, eatEntry>>

\* main, lines 102-105: one iteration of the spawn loop: wg.Add(1); go dine.
Spawn ==
    /\ mainPc = "spawn"
    /\ next < n
    /\ wg' = wg + 1
    /\ pc' = [pc EXCEPT ![next] = "select"]
    /\ next' = next + 1
    /\ UNCHANGED <<n, forks, philosophers, holds, order, finished, done, closes, mainPc>>
    /\ UNCHANGED <<monVars, aggVars>>
    /\ UNCHANGED <<lastEvent, printed, eatEntry>>

\* main, line 108: the spawn loop is over, main sleeps.
Sleep ==
    /\ mainPc = "spawn"
    /\ next >= n
    /\ mainPc' = "sleep"
    /\ UNCHANGED <<n, forks, philosophers, pc, holds, order, finished, wg, done, closes, next>>
    /\ UNCHANGED <<monVars, aggVars>>
    /\ UNCHANGED <<lastEvent, printed, eatEntry>>

\* main, line 111: close(done).
CloseDone ==
    /\ mainPc = "sleep"
    /\ done' = TRUE
    /\ closes' = closes + 1
    /\ mainPc' = "wait"
    /\ UNCHANGED <<n, forks, philosophers, pc, holds, order, finished, wg, next>>
    /\ UNCHANGED <<monVars, aggVars>>
    /\ UNCHANGED <<lastEvent, printed, eatEntry>>

\* A wg.Wait() that does not wait for the counter.
WaitReturn_NoBarrier ==
    /\ mainPc = "wait"
    /\ mainPc' = "returned"
    /\ UNCHANGED <<n, forks, philosophers, pc, holds, order, finished, wg, done, closes, next>>
    /\ UNCHANGED <<monVars, aggVars>>
    /\ UNCHANGED <<lastEvent, printed, eatEntry>>

\* main, lines 114-117: wg.Wait() returns when the counter is zero; the
\* completion line is printed and main returns.
WaitReturn ==
    /\ mainPc = "wait"
    /\ wg = 0
    /\ mainPc' = "returned"
    /\ UNCHANGED <<n, forks, philosophers, pc, holds, order, finished, wg, done, closes, next>>
    /\ UNCHANGED <<monVars, aggVars>>
    /\ UNCHANGED <<lastEvent, printed, eatEntry>>

\* ------------------------------------------------------------------ dine()

\* A done case that leaves the select only (break), not dine: the loop goes on.
Select_Break(i) ==
    /\ pc[i] = "select"
    /\ IF done
       THEN /\ finished' = [finished EXCEPT ![i] = @ + 1]
            /\ lastEvent' = [lastEvent EXCEPT ![i] = "finished"]
            /\ UNCHANGED pc
       ELSE /\ pc' = [pc EXCEPT ![i] = "think"]
            /\ lastEvent' = [lastEvent EXCEPT ![i] = "thinking"]
            /\ UNCHANGED finished
    /\ UNCHANGED <<n, forks, philosophers, holds, order, wg, done, closes, mainPc, next>>
    /\ UNCHANGED <<monVars, aggVars>>
    /\ printed' = [printed EXCEPT ![i] = 1]
    /\ UNCHANGED eatEntry

\* A done signal that is a sent value, consumed by the philosopher receiving it.
Select_Consume(i) ==
    /\ pc[i] = "select"
    /\ IF done
       THEN /\ finished' = [finished EXCEPT ![i] = @ + 1]
            /\ lastEvent' = [lastEvent EXCEPT ![i] = "finished"]
            /\ pc' = [pc EXCEPT ![i] = "exit"]
            /\ done' = FALSE
       ELSE /\ pc' = [pc EXCEPT ![i] = "think"]
            /\ lastEvent' = [lastEvent EXCEPT ![i] = "thinking"]
            /\ UNCHANGED <<finished, done>>
    /\ UNCHANGED <<n, forks, philosophers, holds, order, wg, closes, mainPc, next>>
    /\ UNCHANGED <<monVars, aggVars>>
    /\ printed' = [printed EXCEPT ![i] = 1]
    /\ UNCHANGED eatEntry

\* The two branches of the select swapped: the done case runs the loop body.
Select_SwappedBranches(i) ==
    /\ pc[i] = "select"
    /\ IF ~done
       THEN /\ finished' = [finished EXCEPT ![i] = @ + 1]
            /\ lastEvent' = [lastEvent EXCEPT ![i] = "finished"]
            /\ pc' = [pc EXCEPT ![i] = "exit"]
       ELSE /\ pc' = [pc EXCEPT ![i] = "think"]
            /\ lastEvent' = [lastEvent EXCEPT ![i] = "thinking"]
            /\ UNCHANGED finished
    /\ UNCHANGED <<n, forks, philosophers, holds, order, wg, done, closes, mainPc, next>>
    /\ UNCHANGED <<monVars, aggVars>>
    /\ printed' = [printed EXCEPT ![i] = 1]
    /\ UNCHANGED eatEntry

\* A loop without the select: done is never looked at.
Select_NoCheck(i) ==
    /\ pc[i] = "select"
    /\ pc' = [pc EXCEPT ![i] = "think"]
    /\ lastEvent' = [lastEvent EXCEPT ![i] = "thinking"]
    /\ printed' = [printed EXCEPT ![i] = 1]
    /\ UNCHANGED <<n, forks, philosophers, holds, order, finished, wg, done, closes, mainPc, next>>
    /\ UNCHANGED <<monVars, aggVars>>
    /\ UNCHANGED eatEntry

\* A think() that prints nothing.
Select_SilentThink(i) ==
    /\ pc[i] = "select"
    /\ IF done
       THEN /\ finished' = [finished EXCEPT ![i] = @ + 1]
            /\ lastEvent' = [lastEvent EXCEPT ![i] = "finished"]
            /\ pc' = [pc EXCEPT ![i] = "exit"]
            /\ printed' = [printed EXCEPT ![i] = 1]
       ELSE /\ pc' = [pc EXCEPT ![i] = "think"]
            /\ printed' = [printed EXCEPT ![i] = 0]
            /\ UNCHANGED <<finished, lastEvent>>
    /\ UNCHANGED <<n, forks, philosophers, holds, order, wg, done, closes, mainPc, next>>
    /\ UNCHANGED <<monVars, aggVars>>
    /\ UNCHANGED eatEntry

\* dine, lines 34-43: the select, which begins a loop iteration. A closed done
\* channel makes its case ready, so the default branch is taken only while done
\* is open. On done the "finished" line is printed and dine returns; otherwise
\* think() prints its line and sleeps.
Select(i) ==
    /\ pc[i] = "select"
    /\ IF done
       THEN /\ finished' = [finished EXCEPT ![i] = @ + 1]
            /\ lastEvent' = [lastEvent EXCEPT ![i] = "finished"]
            /\ pc' = [pc EXCEPT ![i] = "exit"]
       ELSE /\ pc' = [pc EXCEPT ![i] = "think"]
            /\ lastEvent' = [lastEvent EXCEPT ![i] = "thinking"]
            /\ UNCHANGED finished
    /\ UNCHANGED <<n, forks, philosophers, holds, order, wg, done, closes, mainPc, next>>
    /\ UNCHANGED <<monVars, aggVars>>
    /\ printed' = [printed EXCEPT ![i] = 1]
    /\ UNCHANGED eatEntry

\* think, line 51: the sleep ends, eat() is entered.
Think(i) ==
    /\ pc[i] = "think"
    /\ pc' = [pc EXCEPT ![i] = "lock1"]
    /\ UNCHANGED <<n, forks, philosophers, holds, order, finished, wg, done, closes, mainPc, next>>
    /\ UNCHANGED <<monVars, aggVars>>
    /\ UNCHANGED <<lastEvent, printed, eatEntry>>

\* A first Lock() inside a select on done: a cancelled philosopher returns
\* from inside eat().
LockFirst_Cancellable(i) ==
    /\ pc[i] = "lock1"
    /\ IF done
       THEN /\ finished' = [finished EXCEPT ![i] = @ + 1]
            /\ lastEvent' = [lastEvent EXCEPT ![i] = "finished"]
            /\ pc' = [pc EXCEPT ![i] = "exit"]
            /\ UNCHANGED <<forks, holds, order>>
       ELSE /\ LET f == FirstFork(philosophers[i]) IN
                /\ CanLock(f)
                /\ forks' = [forks EXCEPT ![f] = TRUE]
                /\ holds' = [holds EXCEPT ![i] = @ \cup {f}]
                /\ order' = [order EXCEPT ![i] = Append(@, f)]
            /\ pc' = [pc EXCEPT ![i] = "lock2"]
            /\ UNCHANGED <<finished, lastEvent>>
    /\ UNCHANGED <<n, philosophers, wg, done, closes, mainPc, next>>
    /\ UNCHANGED <<monVars, aggVars>>
    /\ UNCHANGED <<printed, eatEntry>>

\* eat, lines 60 / 63: the first Lock().
LockFirst(i) ==
    /\ pc[i] = "lock1"
    /\ LET f == FirstFork(philosophers[i]) IN
        /\ CanLock(f)
        /\ forks' = [forks EXCEPT ![f] = TRUE]
        /\ holds' = [holds EXCEPT ![i] = @ \cup {f}]
        /\ order' = [order EXCEPT ![i] = Append(@, f)]
    /\ pc' = [pc EXCEPT ![i] = "lock2"]
    /\ UNCHANGED <<n, philosophers, finished, wg, done, closes, mainPc, next>>
    /\ UNCHANGED <<monVars, aggVars>>
    /\ UNCHANGED <<lastEvent, printed, eatEntry>>

\* A second Lock() that gives up once done is closed: the philosopher goes back
\* to the select with its first fork released, without having eaten.
LockSecond_GivesUp(i) ==
    /\ pc[i] = "lock2"
    /\ IF done
       THEN /\ forks' = [forks EXCEPT ![FirstFork(philosophers[i])] = FALSE]
            /\ holds' = [holds EXCEPT ![i] = {}]
            /\ order' = [order EXCEPT ![i] = <<>>]
            /\ pc' = [pc EXCEPT ![i] = "select"]
            /\ UNCHANGED <<lastEvent, printed, eatEntry>>
       ELSE /\ LET f == SecondFork(philosophers[i]) IN
                /\ CanLock(f)
                /\ forks' = [forks EXCEPT ![f] = TRUE]
                /\ holds' = [holds EXCEPT ![i] = @ \cup {f}]
                /\ order' = [order EXCEPT ![i] = Append(@, f)]
            /\ pc' = [pc EXCEPT ![i] = "eating"]
            /\ lastEvent' = [lastEvent EXCEPT ![i] = "eating"]
            /\ printed' = [printed EXCEPT ![i] = @ + 1]
            /\ eatEntry' = [eatEntry EXCEPT ![i] = "armed"]
    /\ UNCHANGED <<n, philosophers, finished, wg, done, closes, mainPc, next>>
    /\ UNCHANGED <<monVars, aggVars>>

\* eat, lines 61 / 64 and 68-69: the second Lock(), then the "eating" line
\* and the sleep.
LockSecond(i) ==
    /\ pc[i] = "lock2"
    /\ LET f == SecondFork(philosophers[i]) IN
        /\ CanLock(f)
        /\ forks' = [forks EXCEPT ![f] = TRUE]
        /\ holds' = [holds EXCEPT ![i] = @ \cup {f}]
        /\ order' = [order EXCEPT ![i] = Append(@, f)]
    /\ pc' = [pc EXCEPT ![i] = "eating"]
    /\ UNCHANGED <<n, philosophers, finished, wg, done, closes, mainPc, next>>
    /\ UNCHANGED <<monVars, aggVars>>
    /\ lastEvent' = [lastEvent EXCEPT ![i] = "eating"]
    /\ printed' = [printed EXCEPT ![i] = @ + 1]
    /\ eatEntry' = [eatEntry EXCEPT ![i] = IF done THEN "signaled" ELSE "armed"]

\* The first Unlock() written for rightFork too.
UnlockLeft_RightTwice(i) ==
    /\ pc[i] = "eating"
    /\ LET f == philosophers[i].rightFork IN
        /\ forks' = [forks EXCEPT ![f] = FALSE]
        /\ holds' = [holds EXCEPT ![i] = @ \ {f}]
    /\ pc' = [pc EXCEPT ![i] = "unlockR"]
    /\ UNCHANGED <<n, philosophers, order, finished, wg, done, closes, mainPc, next>>
    /\ UNCHANGED <<monVars, aggVars>>
    /\ UNCHANGED <<lastEvent, printed>>
    /\ eatEntry' = [eatEntry EXCEPT ![i] = "none"]

\* eat, line 72: p.leftFork.Unlock().
UnlockLeft(i) ==
    /\ pc[i] = "eating"
    /\ LET f == philosophers[i].leftFork IN
        /\ forks' = [forks EXCEPT ![f] = FALSE]
        /\ holds' = [holds EXCEPT ![i] = @ \ {f}]
    /\ pc' = [pc EXCEPT ![i] = "unlockR"]
    /\ UNCHANGED <<n, philosophers, order, finished, wg, done, closes, mainPc, next>>
    /\ UNCHANGED <<monVars, aggVars>>
    /\ UNCHANGED <<lastEvent, printed>>
    /\ eatEntry' = [eatEntry EXCEPT ![i] = "none"]

\* An eat() that returns without unlocking rightFork.
UnlockRight_Forgotten(i) ==
    /\ pc[i] = "unlockR"
    /\ order' = [order EXCEPT ![i] = <<>>]
    /\ pc' = [pc EXCEPT ![i] = "select"]
    /\ UNCHANGED <<n, forks, philosophers, holds, finished, wg, done, closes, mainPc, next>>
    /\ UNCHANGED <<monVars, aggVars>>
    /\ UNCHANGED <<lastEvent, printed, eatEntry>>

\* eat, line 73: p.rightFork.Unlock(); eat() returns to the loop of dine.
UnlockRight(i) ==
    /\ pc[i] = "unlockR"
    /\ LET f == philosophers[i].rightFork IN
        /\ forks' = [forks EXCEPT ![f] = FALSE]
        /\ holds' = [holds EXCEPT ![i] = @ \ {f}]
    /\ order' = [order EXCEPT ![i] = <<>>]
    /\ pc' = [pc EXCEPT ![i] = "select"]
    /\ UNCHANGED <<n, philosophers, finished, wg, done, closes, mainPc, next>>
    /\ UNCHANGED <<monVars, aggVars>>
    /\ UNCHANGED <<lastEvent, printed, eatEntry>>

\* dine, line 31: the deferred wg.Done() runs as dine returns.
Exit(i) ==
    /\ pc[i] = "exit"
    /\ wg' = wg - 1
    /\ pc' = [pc EXCEPT ![i] = "terminated"]
    /\ UNCHANGED <<n, forks, philosophers, holds, order, finished, done, closes, mainPc, next>>
    /\ UNCHANGED <<monVars, aggVars>>
    /\ UNCHANGED <<lastEvent, printed, eatEntry>>

\* ------------------------------------------------------------------ specifications

MainStep == Build \/ Spawn \/ Sleep \/ CloseDone \/ WaitReturn

AgentStep(i) ==
    \/ Select(i)
    \/ Think(i)
    \/ LockFirst(i)
    \/ LockSecond(i)
    \/ UnlockLeft(i)
    \/ UnlockRight(i)
    \/ Exit(i)

Next ==
    \/ Build
    \/ Spawn
    \/ Sleep
    \/ CloseDone
    \/ WaitReturn
    \/ \E i \in Agents : Select(i)
    \/ \E i \in Agents : Think(i)
    \/ \E i \in Agents : LockFirst(i)
    \/ \E i \in Agents : LockSecond(i)
    \/ \E i \in Agents : UnlockLeft(i)
    \/ \E i \in Agents : UnlockRight(i)
    \/ \E i \in Agents : Exit(i)

\* Rings of every valid size.
Spec == Init /\ [][Next]_vars

\* Rings of every size, the invalid ones included.
InitAny == InitFor(AnySizes)
SpecAny == InitAny /\ [][Next]_vars

\* The Go scheduler runs every runnable goroutine: weak fairness of main and
\* of every philosopher's goroutine.
Fairness ==
    /\ WF_vars(MainStep)
    /\ \A i \in 0..(numPhilosophers - 1) : WF_vars(i \in Agents /\ AgentStep(i))

InitFair == InitFor(FairSizes)
FairSpec == InitFair /\ [][Next]_vars /\ Fairness

\* The same rings with no fairness assumed: every interleaving, stopping included.
ShutdownSpec == InitFair /\ [][Next]_vars

\* ------------------------------------------------------------------ phases

Started(i) == pc[i] # "unstarted"

\* The agent has observed the cancellation and left its loop.
Terminated(i) == pc[i] \in {"exit", "terminated"}

\* The fork the agent's pending Lock() call is for.
Wanted(i) ==
    IF pc[i] = "lock1" THEN FirstFork(philosophers[i]) ELSE SecondFork(philosophers[i])

\* The agent is inside a Lock() call that cannot return in this state.
Blocked(i) == pc[i] \in {"lock1", "lock2"} /\ forks[Wanted(i)]

Holders(f) == {i \in Agents : f \in holds[i]}

Built == mainPc # "build"

Min(a, b) == IF a < b THEN a ELSE b
Max(a, b) == IF a < b THEN b ELSE a

RECURSIVE SumUpTo(_, _)
SumUpTo(f, k) == IF k < 0 THEN 0 ELSE f[k] + SumUpTo(f, k - 1)

\* ------------------------------------------------------------------ claims

\* C1: mutual exclusion: in every reachable state every fork is held by at
\* most one agent.
C1_MutualExclusion == \A f \in DOMAIN forks : Cardinality(Holders(f)) <= 1

\* C1: a fork is held by one agent while another agent's Lock() is for it.
C1_Witness ==
    \E i \in Agents, j \in Agents :
        /\ i # j
        /\ pc[j] \in {"lock1", "lock2"}
        /\ Wanted(j) \in holds[i]

\* C2: no deadlock: while some agent has not terminated, some non-terminated
\* agent is not blocked in Lock(); and the state in which every agent holds
\* exactly one fork and is blocked on its other one is never reached.
C2_NoDeadlock ==
    LET live == {i \in Agents : pc[i] # "terminated"} IN
        /\ live # {} => \E i \in live : ~Blocked(i)
        /\ ~(\A i \in Agents : Cardinality(holds[i]) = 1 /\ Blocked(i))

\* C2: contention: an agent holds one fork and is blocked on its second one
\* while another agent is blocked too.
C2_Witness ==
    \E i \in Agents, j \in Agents :
        /\ i # j
        /\ pc[i] = "lock2" /\ Blocked(i)
        /\ Blocked(j)

\* C3: global termination: once the done channel is closed, eventually every
\* agent has terminated and main has returned.
C3_GlobalTermination ==
    done ~> (mainPc = "returned" /\ \A i \in Agents : pc[i] = "terminated")

\* C3: the signal is set while one agent eats and a neighbour is blocked on a
\* fork, in the ring of the program's size.
C3_Witness ==
    /\ done
    /\ n = numPhilosophers
    /\ \E i \in Agents, j \in Agents : pc[i] = "eating" /\ Blocked(j)

\* C4: shutdown barrier: main has returned only in states where every agent
\* has terminated.
C4_ShutdownBarrier ==
    mainPc = "returned" => \A i \in Agents : pc[i] = "terminated"

\* C4: main has returned from a run of the program's ring size.
C4_Witness == mainPc = "returned" /\ n = numPhilosophers /\ wg = 0

\* C5: exactly-once termination event: no agent ever prints "finished" twice,
\* and when main has returned every agent has printed it once, N in total.
C5_ExactlyOnceFinished ==
    /\ \A i \in Agents : finished[i] <= 1
    /\ \A i \in Agents : Terminated(i) <=> finished[i] = 1
    /\ mainPc = "returned" =>
        /\ \A i \in Agents : finished[i] = 1
        /\ SumUpTo(finished, n - 1) = n

\* C5: a complete run with N "finished" events.
C5_Witness == mainPc = "returned" /\ SumUpTo(finished, n - 1) = n /\ n > 2

\* The ring: fork r is the left fork of agent r only and the right fork of
\* agent (r-1) mod N only.
RingTopology ==
    /\ DOMAIN philosophers = Agents
    /\ DOMAIN forks = Agents
    /\ \A r \in Agents :
        /\ {i \in Agents : philosophers[i].leftFork = r} = {r}
        /\ {i \in Agents : philosophers[i].rightFork = r} = {(r + n - 1) % n}
        /\ Cardinality({i \in Agents : r \in {philosophers[i].leftFork,
                                              philosophers[i].rightFork}}) = 2

\* C6: topology correctness: once the ring is built every fork is referenced
\* by exactly two agents, agent i as left and agent (i-1) mod N as right, and
\* the references never change.
C6_Topology ==
    /\ [](Built => RingTopology)
    /\ [][Built => philosophers' = philosophers]_vars

\* C6: the built ring in use: the wrap agent eats with forks N-1 and 0.
C6_Witness ==
    /\ Built
    /\ n = numPhilosophers
    /\ holds[n - 1] = {n - 1, 0}

\* The order of acquisition by ring adjacency, from the agent's index alone.
RingOrder(i) == IF i % 2 = 0 THEN <<i, (i + 1) % n>> ELSE <<(i + 1) % n, i>>

\* C7: ordering rule by ring adjacency: an even agent i locks fork i and only
\* then fork (i+1) mod N, an odd agent fork (i+1) mod N and only then fork i,
\* the wrap agent N-1 included.
C7_RingAdjacencyOrder ==
    \A i \in Agents :
        /\ pc[i] \in {"unstarted", "select", "think", "lock1", "exit", "terminated"} =>
            order[i] = <<>> /\ holds[i] = {}
        /\ pc[i] = "lock2" =>
            order[i] = <<RingOrder(i)[1]>> /\ holds[i] = {RingOrder(i)[1]}
        /\ pc[i] = "eating" =>
            order[i] = RingOrder(i) /\ holds[i] = {RingOrder(i)[1], RingOrder(i)[2]}
        /\ pc[i] = "unlockR" => order[i] = RingOrder(i)

\* C7: the even wrap agent of the ring of five has locked fork 4, then fork 0.
C7_Witness == n = numPhilosophers /\ pc[n - 1] = "eating" /\ order[n - 1] = <<n - 1, 0>>

\* The numeric rule: even -> lower index first, odd -> higher index first.
NumericOrder(p) ==
    IF p.id % 2 = 0
    THEN <<Min(p.leftFork, p.rightFork), Max(p.leftFork, p.rightFork)>>
    ELSE <<Max(p.leftFork, p.rightFork), Min(p.leftFork, p.rightFork)>>

FollowsOrder(i, o) ==
    /\ Len(order[i]) >= 1 => order[i][1] = o[1]
    /\ Len(order[i]) = 2 => order[i][2] = o[2]

\* C8 as stated: every agent of the ring follows the numeric rule: even ->
\* lower-index neighbour fork first then the higher one, odd -> the reverse.
C8_NumericOrderEveryAgent ==
    \A i \in Agents : Built => FollowsOrder(i, NumericOrder(philosophers[i]))

\* C8 as amended: every agent but the wrap agent N-1 follows the numeric rule;
\* the wrap agent, whose forks are N-1 and 0, locks them in the numerically
\* opposite order (even: N-1 then 0; odd: 0 then N-1).
C8_NumericOrderExceptWrap ==
    \A i \in Agents : Built =>
        LET o == NumericOrder(philosophers[i]) IN
            IF i < n - 1
            THEN FollowsOrder(i, o)
            ELSE FollowsOrder(i, <<o[2], o[1]>>)

\* C8: the odd wrap agent of the ring of four has locked fork 0, then fork 3,
\* while a non-wrap agent has locked both of its forks in numeric order.
C8_Witness ==
    /\ n = 4
    /\ order[3] = <<0, 3>>
    /\ \E i \in 0..2 : Len(order[i]) = 2

\* C9: the cancellation signal is write-once: armed at the start, signaled by
\* one close(done) of main and by nothing else, and never armed again.
C9_WriteOnce ==
    /\ ~done
    /\ [](closes <= 1 /\ (done <=> closes = 1))
    /\ [](mainPc \in {"wait", "returned"} => done)
    /\ [][done => done']_vars
    /\ [][done' # done => mainPc = "sleep" /\ mainPc' = "wait" /\ pc' = pc]_vars

\* C9: the signal is set and an agent has acted on it.
C9_Witness == done /\ closes = 1 /\ \E i \in Agents : Terminated(i)

Eating(i) == i \in Agents /\ pc[i] = "eating"

\* The steps of one loop iteration of dine(), as pairs of positions.
Cycle ==
    {<<"unstarted", "select">>, <<"select", "think">>, <<"think", "lock1">>,
     <<"lock1", "lock2">>, <<"lock2", "eating">>, <<"eating", "unlockR">>,
     <<"unlockR", "select">>}

\* C11: no two ring neighbours (agents i and (i+1) mod N, which share a fork)
\* are in the Eating phase in the same state.
C11_NeighboursNeverEatTogether ==
    \A i \in Agents : ~(Eating(i) /\ Eating((i + 1) % n))

\* C11: two agents that are not neighbours eat at once while a neighbour of one
\* of them is blocked on the shared fork.
C11_Witness ==
    \E i \in Agents, j \in Agents :
        /\ Eating(i) /\ Eating(j) /\ i # j
        /\ Blocked((i + 1) % n)

\* C12: an agent enters Terminated only by the select at the top of its loop
\* with done closed, holding no fork; once Terminated it stays Terminated,
\* holds no fork, makes no Lock() call and moves only to the end of dine().
C12_TerminatedOnlyFromCheck ==
    /\ [][\A i \in Agents :
            (~Terminated(i) /\ Terminated(i)') =>
                (pc[i] = "select" /\ done /\ holds[i] = {})]_vars
    /\ [][\A i \in Agents :
            Terminated(i) =>
                /\ Terminated(i)'
                /\ holds'[i] = {} /\ order'[i] = <<>>
                /\ pc'[i] \in {pc[i], "terminated"}
                /\ lastEvent'[i] = lastEvent[i]]_vars
    /\ [](\A i \in Agents : Terminated(i) => holds[i] = {} /\ pc[i] \notin {"lock1", "lock2"})

\* C12: an agent has terminated while both of its neighbours' forks are in use.
C12_Witness ==
    \E i \in Agents :
        /\ pc[i] = "terminated"
        /\ forks[philosophers[i].leftFork]
        /\ forks[philosophers[i].rightFork]

\* C13: while done is open no agent is Terminated or has printed "finished",
\* and every step of an agent is the next step of the cycle
\* select -> think -> Lock -> Lock -> eating -> Unlock -> Unlock -> select.
C13_NoTerminationBeforeCancel ==
    /\ [](\A i \in Agents :
            (Terminated(i) \/ finished[i] > 0 \/ lastEvent[i] = "finished") => done)
    /\ [][\A i \in Agents :
            (~done' /\ pc'[i] # pc[i]) => <<pc[i], pc'[i]>> \in Cycle]_vars

\* C13: with done still open an agent is back at the select after a full cycle.
C13_Witness ==
    \E i \in Agents : ~done /\ pc[i] = "select" /\ lastEvent[i] = "eating"

\* C14: cancellation is cooperative: close(done) changes no agent's position
\* and no fork, and with done closed an agent that is acquiring, eating or
\* releasing moves only along the cycle, back to the select with no fork held.
C14_CooperativeCancel ==
    /\ [][done' # done =>
            pc' = pc /\ forks' = forks /\ holds' = holds /\ order' = order]_vars
    /\ [][\A i \in Agents :
            (done /\ pc[i] \in {"think", "lock1", "lock2", "eating", "unlockR"}
                  /\ pc'[i] # pc[i]) =>
                /\ <<pc[i], pc'[i]>> \in Cycle
                /\ pc'[i] = "eating" => Cardinality(holds'[i]) = 2
                /\ pc'[i] = "select" => holds'[i] = {} /\ lastEvent[i] = "eating"]_vars

\* C14: done is closed while one agent is blocked on its second fork, one is
\* eating and one is blocked on its first fork.
C14_Witness ==
    /\ done
    /\ \E i \in Agents, j \in Agents, k \in Agents :
        /\ pc[i] = "lock2" /\ Blocked(i)
        /\ pc[j] = "eating"
        /\ pc[k] = "lock1" /\ Blocked(k)

\* C15: bounded shutdown: with done closed, an agent that is at the select
\* leaves it only to terminate, and an agent that is Eating never enters
\* Eating again once it has left it: at most one more Eating phase per agent.
C15_BoundedShutdown ==
    /\ [][\A i \in Agents :
            (done /\ pc[i] = "select" /\ pc'[i] # pc[i]) => pc'[i] = "exit"]_vars
    /\ \A i \in 0..(MaxRing - 1) :
        [](done /\ Eating(i) => [](~Eating(i) => []~Eating(i)))

\* C15: an agent is in an Eating phase it entered with done already closed.
C15_Witness ==
    \E i \in Agents : done /\ pc[i] = "eating" /\ eatEntry[i] = "signaled"

\* C16: an agent holds both of its forks exactly while Eating; it holds none
\* while unstarted, thinking, in its first Lock() or terminated, exactly the
\* fork it locked first while in its second Lock(), and only rightFork between
\* its two Unlock() calls.
C16_HoldsBothOnlyEating ==
    \A i \in Agents :
        /\ Cardinality(holds[i]) = 2 <=> pc[i] = "eating"
        /\ pc[i] = "eating" =>
            holds[i] = {philosophers[i].leftFork, philosophers[i].rightFork}
        /\ pc[i] \in {"unstarted", "select", "think", "lock1", "exit", "terminated"} =>
            holds[i] = {}
        /\ pc[i] = "lock2" => holds[i] = {order[i][1]} /\ Len(order[i]) = 1
        /\ pc[i] = "unlockR" => holds[i] = {philosophers[i].rightFork}

\* C16: an agent is in its second Lock() holding one fork while a neighbour
\* eats with both of its own.
C16_Witness ==
    \E i \in Agents, j \in Agents :
        /\ pc[i] = "lock2" /\ Cardinality(holds[i]) = 1
        /\ pc[j] = "eating" /\ Cardinality(holds[j]) = 2
        /\ Wanted(i) \in holds[j]

\* C17: every Unlock() is made by the owner: an agent about to unlock leftFork
\* or rightFork has that fork locked and is its only holder, and after its two
\* Unlock() calls it holds neither fork.
C17_UnlockByOwner ==
    /\ [](\A i \in Agents :
            /\ pc[i] = "eating" =>
                LET f == philosophers[i].leftFork IN forks[f] /\ Holders(f) = {i}
            /\ pc[i] = "unlockR" =>
                LET f == philosophers[i].rightFork IN forks[f] /\ Holders(f) = {i})
    /\ [][\A f \in DOMAIN forks :
            (forks[f] /\ ~forks'[f]) =>
                \E i \in Agents :
                    /\ Holders(f) = {i}
                    /\ f \notin holds'[i]
                    /\ pc[i] \in {"eating", "unlockR"} /\ pc'[i] # pc[i]]_vars
    /\ [][\A i \in Agents :
            (pc[i] = "unlockR" /\ pc'[i] = "select") =>
                /\ holds'[i] = {}
                /\ philosophers[i].leftFork \notin holds'[i]
                /\ philosophers[i].rightFork \notin holds'[i]]_vars

\* C17: an agent has made its first Unlock() and a neighbour already holds the
\* fork it released.
C17_Witness ==
    \E i \in Agents, j \in Agents :
        /\ i # j
        /\ pc[i] = "unlockR"
        /\ philosophers[i].leftFork \in holds[j]

\* C18: acquisition is not reentrant: the two forks of an agent are distinct,
\* an agent inside Lock() does not hold the fork the call is for, and no fork
\* is locked twice in one eat().
C18_NonReentrant ==
    \A i \in Agents :
        /\ Built => philosophers[i].leftFork # philosophers[i].rightFork
        /\ pc[i] \in {"lock1", "lock2"} => Wanted(i) \notin holds[i]
        /\ Len(order[i]) = 2 => order[i][1] # order[i][2]

\* C18: in the minimal ring an agent holding one fork is inside Lock() for the
\* other fork, which its only neighbour holds.
C18_Witness ==
    /\ n = 2
    /\ \E i \in Agents :
        /\ pc[i] = "lock2" /\ Cardinality(holds[i]) = 1
        /\ Blocked(i)

\* The pairs of consecutive lines of one agent: ("thinking" "eating")* "finished".
EventPairs ==
    {<<"none", "thinking">>, <<"none", "finished">>, <<"thinking", "eating">>,
     <<"eating", "thinking">>, <<"eating", "finished">>}

\* C19: per-agent event order: the lines of one agent are ("thinking",
\* "eating") repeated, then one "finished" as the last line; "eating" is
\* printed with both forks held; every loop iteration prints a line.
C19_EventOrder ==
    /\ [][\A i \in Agents :
            (lastEvent'[i] # lastEvent[i] \/ printed'[i] # printed[i]
                \/ finished'[i] # finished[i]) =>
                <<lastEvent[i], lastEvent'[i]>> \in EventPairs]_vars
    /\ [](\A i \in Agents :
            /\ finished[i] <= 1
            /\ lastEvent[i] = "finished" <=> finished[i] = 1
            /\ Terminated(i) => lastEvent[i] = "finished")
    /\ [][\A i \in Agents :
            (lastEvent'[i] = "eating" /\ lastEvent[i] # "eating") =>
                holds'[i] = {philosophers[i].leftFork, philosophers[i].rightFork}
                    /\ Cardinality(holds'[i]) = 2]_vars
    /\ [](\A i \in Agents :
            /\ pc[i] \in {"think", "lock1", "lock2", "exit", "terminated"} => printed[i] = 1
            /\ pc[i] \in {"eating", "unlockR"} => printed[i] = 2)

\* C19: an agent has printed "finished" after at least one full cycle while
\* another has printed it without ever eating.
C19_Witness ==
    \E i \in Agents, j \in Agents :
        /\ lastEvent[i] = "finished" /\ printed[i] = 1 /\ eatEntry[i] = "none"
        /\ lastEvent[j] = "eating" /\ pc[j] = "select"

\* ------------------------------------------------------------------ Monitor test

Waiters == 0..(numGoroutines - 1)

\* The philosophers' program is another program: it is not running.
PhilIdle ==
    /\ n = 0
    /\ forks = [f \in {} |-> FALSE]
    /\ philosophers = [i \in {} |-> 0]
    /\ pc = [i \in {} |-> "unstarted"]
    /\ holds = [i \in {} |-> {}]
    /\ order = [i \in {} |-> <<>>]
    /\ finished = [i \in {} |-> 0]
    /\ wg = 0
    /\ done = FALSE
    /\ closes = 0
    /\ mainPc = "idle"
    /\ next = 0
    /\ lastEvent = [i \in {} |-> "none"]
    /\ printed = [i \in {} |-> 0]
    /\ eatEntry = [i \in {} |-> "none"]

\* main, lines 170-171: a fresh mutex and its condition variable.
MonitorInit ==
    /\ PhilIdle
    /\ AggIdle
    /\ numGoroutines \in 1..MaxGoroutines
    /\ mu = FALSE
    /\ notify = {}
    /\ broadcasts = 0
    /\ monitorPc = [w \in 0..(numGoroutines - 1) |-> "unstarted"]
    /\ monitorWg = 0
    /\ monitorMain = "add"
    /\ monitorNext = 0

\* main, line 173: wg.Add(numGoroutines).
MonitorAdd ==
    /\ monitorMain = "add"
    /\ monitorWg' = monitorWg + numGoroutines
    /\ monitorMain' = "go"
    /\ UNCHANGED <<numGoroutines, mu, notify, broadcasts, monitorPc, monitorNext>>
    /\ UNCHANGED <<philVars, aggVars>>

\* main, lines 174-176: one iteration of the loop: go testMonitor(&wg, mu, cond).
MonitorGo ==
    /\ monitorMain = "go"
    /\ monitorNext < numGoroutines
    /\ monitorPc' = [monitorPc EXCEPT ![monitorNext] = "lock"]
    /\ monitorNext' = monitorNext + 1
    /\ UNCHANGED <<numGoroutines, mu, notify, broadcasts, monitorWg, monitorMain>>
    /\ UNCHANGED <<philVars, aggVars>>

\* main, line 177: the loop is over, main sleeps for a millisecond. The sleep
\* orders nothing: the goroutines run or do not run while it lasts.
MonitorSleep ==
    /\ monitorMain = "go"
    /\ monitorNext >= numGoroutines
    /\ monitorMain' = "sleep"
    /\ UNCHANGED <<numGoroutines, mu, notify, broadcasts, monitorPc, monitorWg, monitorNext>>
    /\ UNCHANGED <<philVars, aggVars>>

\* main, line 178: cond.Broadcast() wakes the goroutines on the wait list at
\* this moment, and no other.
MonitorBroadcast ==
    /\ monitorMain = "sleep"
    /\ notify' = {}
    /\ broadcasts' = broadcasts + 1
    /\ monitorMain' = "wait"
    /\ UNCHANGED <<numGoroutines, mu, monitorPc, monitorWg, monitorNext>>
    /\ UNCHANGED <<philVars, aggVars>>

\* main, line 179: wg.Wait() returns when the counter is zero.
MonitorWaitReturn ==
    /\ monitorMain = "wait"
    /\ monitorWg = 0
    /\ monitorMain' = "returned"
    /\ UNCHANGED <<numGoroutines, mu, notify, broadcasts, monitorPc, monitorWg, monitorNext>>
    /\ UNCHANGED <<philVars, aggVars>>

\* testMonitor, line 93: mu.Lock().
MonitorLock(w) ==
    /\ monitorPc[w] = "lock"
    /\ ~mu
    /\ mu' = TRUE
    /\ monitorPc' = [monitorPc EXCEPT ![w] = "locked"]
    /\ UNCHANGED <<numGoroutines, notify, broadcasts, monitorWg, monitorMain, monitorNext>>
    /\ UNCHANGED <<philVars, aggVars>>

\* testMonitor, line 94: cond.Wait() puts the caller on the wait list, unlocks
\* mu and parks the goroutine.
MonitorWait(w) ==
    /\ monitorPc[w] = "locked"
    /\ notify' = notify \cup {w}
    /\ mu' = FALSE
    /\ monitorPc' = [monitorPc EXCEPT ![w] = "parked"]
    /\ UNCHANGED <<numGoroutines, broadcasts, monitorWg, monitorMain, monitorNext>>
    /\ UNCHANGED <<philVars, aggVars>>

\* testMonitor, line 94: a goroutine taken off the wait list by a Broadcast()
\* locks mu again and cond.Wait() returns.
MonitorWake(w) ==
    /\ monitorPc[w] = "parked"
    /\ w \notin notify
    /\ ~mu
    /\ mu' = TRUE
    /\ monitorPc' = [monitorPc EXCEPT ![w] = "woken"]
    /\ UNCHANGED <<numGoroutines, notify, broadcasts, monitorWg, monitorMain, monitorNext>>
    /\ UNCHANGED <<philVars, aggVars>>

\* testMonitor, lines 95-96: the line is printed and mu unlocked.
MonitorUnlock(w) ==
    /\ monitorPc[w] = "woken"
    /\ mu' = FALSE
    /\ monitorPc' = [monitorPc EXCEPT ![w] = "exit"]
    /\ UNCHANGED <<numGoroutines, notify, broadcasts, monitorWg, monitorMain, monitorNext>>
    /\ UNCHANGED <<philVars, aggVars>>

\* testMonitor, line 92: the deferred wg.Done().
MonitorDone(w) ==
    /\ monitorPc[w] = "exit"
    /\ monitorWg' = monitorWg - 1
    /\ monitorPc' = [monitorPc EXCEPT ![w] = "done"]
    /\ UNCHANGED <<numGoroutines, mu, notify, broadcasts, monitorMain, monitorNext>>
    /\ UNCHANGED <<philVars, aggVars>>

MonitorNextStep ==
    \/ MonitorAdd
    \/ MonitorGo
    \/ MonitorSleep
    \/ MonitorBroadcast
    \/ MonitorWaitReturn
    \/ \E w \in Waiters : MonitorLock(w)
    \/ \E w \in Waiters : MonitorWait(w)
    \/ \E w \in Waiters : MonitorWake(w)
    \/ \E w \in Waiters : MonitorUnlock(w)
    \/ \E w \in Waiters : MonitorDone(w)

\* The Monitor test under every interleaving of its goroutines.
MonitorSpec == MonitorInit /\ [][MonitorNextStep]_vars

\* C20: Monitor test liveness, as the states it excludes: after the single
\* Broadcast() no goroutine is parked on the wait list (it would never be
\* woken), and until main has returned from wg.Wait() some goroutine can step.
C20_MonitorCompletes ==
    /\ \A w \in Waiters : ~(broadcasts >= 1 /\ monitorPc[w] = "parked" /\ w \in notify)
    /\ monitorMain = "returned" \/ ENABLED MonitorNextStep

\* ------------------------------------------------------------------ worker aggregation

\* A float64 of the program is the exact fraction <<numerator, denominator>>
\* in lowest terms: the sums and quotients of small integers the program
\* computes are compared as the fractions they stand for.
RECURSIVE GCD(_, _)
GCD(a, b) == IF b = 0 THEN a ELSE GCD(b, a % b)

Frac(a, b) == LET g == GCD(a, b) IN <<a \div g, b \div g>>

Zero == <<0, 1>>

FracAdd(x, y) == Frac(x[1] * y[2] + y[1] * x[2], x[2] * y[2])

FracDiv(x, k) == Frac(x[1], x[2] * k)

FracPositive(x) == x[1] > 0

\* abs, lines 62-67, in abs(float64(worker.Age) - avgAge) <= 2.
abs(x) == IF x < 0 THEN -x ELSE x

WorkerRecords == [Position : Positions, Age : AgeValues, Salary : SalaryValues]

WorkerLists(longest) == UNION {[1..k -> WorkerRecords] : k \in 0..longest}

\* calculateAverageAge, lines 19-38.
RECURSIVE totalAge(_, _)
totalAge(ws, pos) ==
    IF ws = <<>> THEN 0
    ELSE (IF Head(ws).Position = pos THEN Head(ws).Age ELSE 0) + totalAge(Tail(ws), pos)

RECURSIVE count(_, _)
count(ws, pos) ==
    IF ws = <<>> THEN 0
    ELSE (IF Head(ws).Position = pos THEN 1 ELSE 0) + count(Tail(ws), pos)

calculateAverageAge(ws, pos) ==
    IF count(ws, pos) = 0 THEN Zero ELSE Frac(totalAge(ws, pos), count(ws, pos))

\* findMaxSalary, lines 41-58.
RECURSIVE findMaxSalaryFrom(_, _, _, _)
findMaxSalaryFrom(ws, pos, avg, max) ==
    IF ws = <<>> THEN max
    ELSE LET worker == Head(ws)
             near == abs(worker.Age * avg[2] - avg[1]) <= 2 * avg[2]
         IN  findMaxSalaryFrom(Tail(ws), pos, avg,
                 IF worker.Position = pos /\ near /\ worker.Salary > max
                 THEN worker.Salary ELSE max)

findMaxSalary(ws, pos, avg) == findMaxSalaryFrom(ws, pos, avg, 0)

\* Lines 80 and 160: the size of a part.
subsetsSize(L) == L \div countSize

\* Lines 90 and 172.
startIndex(i, L) == i * subsetsSize(L)

\* Lines 91-95 and 173-177, with the last part ending where it is computed to.
endIndex_NoExtend(i, L) == (i + 1) * subsetsSize(L)

\* Lines 91-95 and 173-177: the last part ends at the end of the list.
endIndex(i, L) == IF i = countSize - 1 THEN L ELSE (i + 1) * subsetsSize(L)

\* workers[startIndex:endIndex] of part i.
Chunk(ws, i) == SubSeq(ws, startIndex(i, Len(ws)) + 1, endIndex(i, Len(ws)))

\* Lines 102-113 and 187-198: the averages of the parts are merged.
RECURSIVE MergeTotal(_, _)
MergeTotal(results, k) ==
    IF k = 0 THEN Zero
    ELSE IF FracPositive(results[k - 1])
         THEN FracAdd(MergeTotal(results, k - 1), results[k - 1])
         ELSE MergeTotal(results, k - 1)

MergeCount(results) == Cardinality({i \in 0..(countSize - 1) : FracPositive(results[i])})

MergeAverage(results) ==
    IF MergeCount(results) > 0
    THEN FracDiv(MergeTotal(results, countSize), MergeCount(results))
    ELSE Zero

\* Lines 131-135 and 221-225: the maxima of the parts are merged.
RECURSIVE MergeMaxFrom(_, _)
MergeMaxFrom(results, k) ==
    IF k = 0 THEN 0
    ELSE LET m == MergeMaxFrom(results, k - 1)
         IN  IF results[k - 1] > m THEN results[k - 1] ELSE m

MergeMax(results) == MergeMaxFrom(results, countSize)

Parts == 0..(countSize - 1)

\* main, lines 266-273: the worker list and the position.
AggInitFor(lists) ==
    /\ PhilIdle
    /\ MonitorIdle
    /\ workers \in lists
    /\ position \in Positions
    /\ seqAvgAge = Zero
    /\ seqMaxSalary = 0
    /\ avgAgeResults = [i \in Parts |-> Zero]
    /\ maxSalaryResults = [i \in Parts |-> 0]
    /\ avgAge = Zero
    /\ maxSalary = 0
    /\ aggWg = 0
    /\ aggMain = "sequential"
    /\ aggNext = 0
    /\ avgPc = [i \in Parts |-> "unstarted"]
    /\ maxPc = [i \in Parts |-> "unstarted"]

AggInit == AggInitFor(WorkerLists(MaxConcurrentWorkers))

SequentialInit == AggInitFor(WorkerLists(MaxWorkers))

\* main, line 276: processWithoutConcurrency, lines 70-145, runs from its first
\* line to its last: the averages of the parts, their merge, the maxima of the
\* parts under the merged average, their merge, and the two results printed.
ProcessWithoutConcurrency ==
    /\ aggMain = "sequential"
    /\ LET avgs == [i \in Parts |-> calculateAverageAge(Chunk(workers, i), position)]
           avg == MergeAverage(avgs)
           maxs == [i \in Parts |-> findMaxSalary(Chunk(workers, i), position, avg)]
       IN  /\ seqAvgAge' = avg
           /\ seqMaxSalary' = MergeMax(maxs)
    /\ aggMain' = "add1"
    /\ UNCHANGED <<workers, position, avgAgeResults, maxSalaryResults, avgAge, maxSalary,
                   aggWg, aggNext, avgPc, maxPc>>
    /\ UNCHANGED <<philVars, monVars>>

\* processWithConcurrency, line 167: wg.Add(numGoroutines) of the first phase.
AggAddAvg ==
    /\ aggMain = "add1"
    /\ aggWg' = aggWg + countSize
    /\ aggNext' = 0
    /\ aggMain' = "go1"
    /\ UNCHANGED <<workers, position, seqAvgAge, seqMaxSalary, avgAgeResults,
                   maxSalaryResults, avgAge, maxSalary, avgPc, maxPc>>
    /\ UNCHANGED <<philVars, monVars>>

\* Lines 168-181: one iteration of the loop starts the goroutine of part
\* aggNext; after the last one main is at wg.Wait().
AggGoAvg ==
    /\ aggMain = "go1"
    /\ avgPc' = [avgPc EXCEPT ![aggNext] = "run"]
    /\ aggNext' = aggNext + 1
    /\ aggMain' = IF aggNext + 1 < countSize THEN "go1" ELSE "wait1"
    /\ UNCHANGED <<workers, position, seqAvgAge, seqMaxSalary, avgAgeResults,
                   maxSalaryResults, avgAge, maxSalary, aggWg, maxPc>>
    /\ UNCHANGED <<philVars, monVars>>

\* Lines 171-179: the goroutine of part i computes the average age of its part
\* and writes it to its slot.
AvgRun(i) ==
    /\ avgPc[i] = "run"
    /\ avgAgeResults' =
           [avgAgeResults EXCEPT ![i] = calculateAverageAge(Chunk(workers, i), position)]
    /\ avgPc' = [avgPc EXCEPT ![i] = "deferred"]
    /\ UNCHANGED <<workers, position, seqAvgAge, seqMaxSalary, maxSalaryResults, avgAge,
                   maxSalary, aggWg, aggMain, aggNext, maxPc>>
    /\ UNCHANGED <<philVars, monVars>>

\* Line 170: the deferred wg.Done() of the goroutine of part i.
AvgDone(i) ==
    /\ avgPc[i] = "deferred"
    /\ aggWg' = aggWg - 1
    /\ avgPc' = [avgPc EXCEPT ![i] = "done"]
    /\ UNCHANGED <<workers, position, seqAvgAge, seqMaxSalary, avgAgeResults,
                   maxSalaryResults, avgAge, maxSalary, aggMain, aggNext, maxPc>>
    /\ UNCHANGED <<philVars, monVars>>

\* Line 184 with wg.Wait() left out: main goes on to the merge at once.
AggWaitAvg_NoBarrier ==
    /\ aggMain = "wait1"
    /\ aggMain' = "merge1"
    /\ UNCHANGED <<workers, position, seqAvgAge, seqMaxSalary, avgAgeResults,
                   maxSalaryResults, avgAge, maxSalary, aggWg, aggNext, avgPc, maxPc>>
    /\ UNCHANGED <<philVars, monVars>>

\* Line 184: wg.Wait() returns when the counter is zero.
AggWaitAvg ==
    /\ aggMain = "wait1"
    /\ aggWg = 0
    /\ aggMain' = "merge1"
    /\ UNCHANGED <<workers, position, seqAvgAge, seqMaxSalary, avgAgeResults,
                   maxSalaryResults, avgAge, maxSalary, aggWg, aggNext, avgPc, maxPc>>
    /\ UNCHANGED <<philVars, monVars>>

\* Lines 187-198: main reads the slots and merges them into avgAge.
AggMergeAvg ==
    /\ aggMain = "merge1"
    /\ avgAge' = MergeAverage(avgAgeResults)
    /\ aggMain' = "add2"
    /\ UNCHANGED <<workers, position, seqAvgAge, seqMaxSalary, avgAgeResults,
                   maxSalaryResults, maxSalary, aggWg, aggNext, avgPc, maxPc>>
    /\ UNCHANGED <<philVars, monVars>>

\* Line 201: wg.Add(numGoroutines) of the second phase.
AggAddMax ==
    /\ aggMain = "add2"
    /\ aggWg' = aggWg + countSize
    /\ aggNext' = 0
    /\ aggMain' = "go2"
    /\ UNCHANGED <<workers, position, seqAvgAge, seqMaxSalary, avgAgeResults,
                   maxSalaryResults, avgAge, maxSalary, avgPc, maxPc>>
    /\ UNCHANGED <<philVars, monVars>>

\* Lines 202-215: one iteration of the loop starts the goroutine of part
\* aggNext; after the last one main is at wg.Wait().
AggGoMax ==
    /\ aggMain = "go2"
    /\ maxPc' = [maxPc EXCEPT ![aggNext] = "run"]
    /\ aggNext' = aggNext + 1
    /\ aggMain' = IF aggNext + 1 < countSize THEN "go2" ELSE "wait2"
    /\ UNCHANGED <<workers, position, seqAvgAge, seqMaxSalary, avgAgeResults,
                   maxSalaryResults, avgAge, maxSalary, aggWg, avgPc>>
    /\ UNCHANGED <<philVars, monVars>>

\* Lines 205-213: the goroutine of part i reads avgAge, finds the maximal
\* salary of its part and writes it to its slot.
MaxRun(i) ==
    /\ maxPc[i] = "run"
    /\ maxSalaryResults' =
           [maxSalaryResults EXCEPT ![i] = findMaxSalary(Chunk(workers, i), position, avgAge)]
    /\ maxPc' = [maxPc EXCEPT ![i] = "deferred"]
    /\ UNCHANGED <<workers, position, seqAvgAge, seqMaxSalary, avgAgeResults, avgAge,
                   maxSalary, aggWg, aggMain, aggNext, avgPc>>
    /\ UNCHANGED <<philVars, monVars>>

\* Line 204: the deferred wg.Done() of the goroutine of part i.
MaxDone(i) ==
    /\ maxPc[i] = "deferred"
    /\ aggWg' = aggWg - 1
    /\ maxPc' = [maxPc EXCEPT ![i] = "done"]
    /\ UNCHANGED <<workers, position, seqAvgAge, seqMaxSalary, avgAgeResults,
                   maxSalaryResults, avgAge, maxSalary, aggMain, aggNext, avgPc>>
    /\ UNCHANGED <<philVars, monVars>>

\* Line 218: wg.Wait() returns when the counter is zero.
AggWaitMax ==
    /\ aggMain = "wait2"
    /\ aggWg = 0
    /\ aggMain' = "merge2"
    /\ UNCHANGED <<workers, position, seqAvgAge, seqMaxSalary, avgAgeResults,
                   maxSalaryResults, avgAge, maxSalary, aggWg, aggNext, avgPc, maxPc>>
    /\ UNCHANGED <<philVars, monVars>>

\* Lines 221-234: main reads the slots, merges them into maxSalary and prints
\* the two results.
AggMergeMax ==
    /\ aggMain = "merge2"
    /\ maxSalary' = MergeMax(maxSalaryResults)
    /\ aggMain' = "returned"
    /\ UNCHANGED <<workers, position, seqAvgAge, seqMaxSalary, avgAgeResults,
                   maxSalaryResults, avgAge, aggWg, aggNext, avgPc, maxPc>>
    /\ UNCHANGED <<philVars, monVars>>

AggNextStep ==
    \/ ProcessWithoutConcurrency
    \/ AggAddAvg
    \/ AggGoAvg
    \/ \E i \in Parts : AvgRun(i)
    \/ \E i \in Parts : AvgDone(i)
    \/ AggWaitAvg
    \/ AggMergeAvg
    \/ AggAddMax
    \/ AggGoMax
    \/ \E i \in Parts : MaxRun(i)
    \/ \E i \in Parts : MaxDone(i)
    \/ AggWaitMax
    \/ AggMergeMax

\* main of 2t2.go on every worker list and position within the bounds, under
\* every interleaving of the goroutines of processWithConcurrency.
AggSpec == AggInit /\ [][AggNextStep]_vars

\* main of 2t2.go up to the return of processWithoutConcurrency, on every
\* worker list and position within the bounds.
SequentialSpec == SequentialInit /\ [][ProcessWithoutConcurrency]_vars

\* ------------------------------------------------------------------ C21..C23

\* C21: The concurrent aggregation has no ordering hazard. Under every
\* interleaving a slot of avgAgeResults or maxSalaryResults changes only in the
\* step in which the goroutine of that part writes it; main merges the slots of
\* a phase only when every goroutine of the phase has written and called
\* Done(); a max-salary goroutine exists only once avgAge holds the merged
\* average; and processWithConcurrency returns with the avgAge and the
\* maxSalary processWithoutConcurrency printed for the same list and position.
C21_ConcurrentEqualsSequential ==
    /\ [][\A i \in Parts :
            /\ avgAgeResults'[i] # avgAgeResults[i]
                   => avgPc[i] = "run" /\ avgPc'[i] = "deferred"
            /\ maxSalaryResults'[i] # maxSalaryResults[i]
                   => maxPc[i] = "run" /\ maxPc'[i] = "deferred"]_vars
    /\ [](aggMain = "merge1" => \A i \in Parts : avgPc[i] = "done")
    /\ [](aggMain = "merge2" => \A i \in Parts : maxPc[i] = "done")
    /\ [](\A i \in Parts :
            maxPc[i] # "unstarted"
                => /\ \A j \in Parts : avgPc[j] = "done"
                   /\ avgAge = MergeAverage(avgAgeResults))
    /\ [](aggMain = "returned" => avgAge = seqAvgAge /\ maxSalary = seqMaxSalary)

\* processWithConcurrency has returned for a list of one worker per part, the
\* parts with different averages, and a salary found under the merged average.
C21_Witness ==
    /\ aggMain = "returned"
    /\ Len(workers) = countSize
    /\ avgAgeResults[0] # avgAgeResults[1]
    /\ FracPositive(avgAgeResults[2])
    /\ FracPositive(avgAge)
    /\ maxSalary > 0

\* C22: For every worker list and position, the avgAge printed after the
\* averages of the three parts are merged is the average age of all workers of
\* that position in the whole list, and 0 when there is none.
C22_MergedIsOverallAverage ==
    aggMain # "sequential" => seqAvgAge = calculateAverageAge(workers, position)

\* C23: Chunk partition. For every list length L, the three index ranges
\* [startIndex, endIndex) stay within [0, L], every index of the list is in
\* exactly one of them, and the three slices, one after the other, are the list.
C23_ChunkPartition ==
    LET L == Len(workers)
    IN  /\ \A i \in Parts :
            /\ 0 <= startIndex(i, L)
            /\ startIndex(i, L) <= endIndex(i, L)
            /\ endIndex(i, L) <= L
        /\ \A k \in 0..(L - 1) :
            Cardinality({i \in Parts : startIndex(i, L) <= k /\ k < endIndex(i, L)}) = 1
        /\ Chunk(workers, 0) \o Chunk(workers, 1) \o Chunk(workers, 2) = workers

\* processWithoutConcurrency has run on a list whose length is above 3 and not
\* a multiple of 3: the last part is longer than the others.
C23_Witness ==
    /\ aggMain = "add1"
    /\ Len(workers) > countSize
    /\ Len(workers) % countSize # 0
    /\ Len(Chunk(workers, 2)) > Len(Chunk(workers, 0))

====
